---- MODULE Spec2Model ----
(***************************************************************************)
(* Model of packages/next-server/lib/head.tsx: the <Head> component, the   *)
(* process-wide set of head instance refs, the cached head state, and the  *)
(* reducer (reduceHeadInstances) that merges all mounted instances'        *)
(* children into one deduplicated list.                                    *)
(*                                                                         *)
(* Representation of JavaScript values:                                    *)
(*  - a React child is a record; a string/number child has type "#text";   *)
(*  - a missing prop (hasOwnProperty false) or undefined is Absent;        *)
(*  - a key is a pair <<prefix, rest>> of strings standing for the string  *)
(*    prefix + rest, so that "starts with .$" is decided by the prefix;    *)
(*    a null key is NoKey;                                                 *)
(*  - src is the identity of the JSX object the contributor supplied:      *)
(*    <<handle, index, ...>>, <<0, i>> for the i-th default element.  No   *)
(*    operation of the program reads it.                                   *)
(***************************************************************************)
EXTENDS Integers, Sequences, FiniteSets, TLC

VARIABLES
  isServer,          \* typeof window === 'undefined'
  headManager,       \* whether HeadManagerContext provides an updateHead
  headInstanceRefs,  \* the Set of instance refs, in insertion order
  headState,         \* the cached result of the last emitUpdate
  current,           \* current[h]: instanceRef.current of instance h
  stage,             \* stage[h]: where instance h is in React's lifecycle
  firstClosure,      \* firstClosure[h]: the closure of h's first render
  lastClosure,       \* lastClosure[h]: the closure of h's latest render
  published,         \* what the last step handed to updateHead, if anything
  rewound,           \* what the last step returned, if it was Head.rewind()
  last               \* the last step's operation and instance (0: none),
                     \* whether emitUpdate has run since the start or the
                     \* last rewind, and the inAmpMode of the last emitUpdate

vars == <<isServer, headManager, headInstanceRefs, headState, current, stage,
          firstClosure, lastClosure, published, rewound, last>>

----------------------------------------------------------------------------
(* Bounds *)

\* the most children all instances hold together in the reducer's inputs
MaxElems == 3

\* the instances, and those the lifecycle specification renders
Handles == {1, 2, 3}
LifecycleHandles == {1, 2}

----------------------------------------------------------------------------
(* Values *)

Absent == "absent"
NoKey == <<"", "">>
Fragment == "React.Fragment"
Text == "#text"

Elem(type, key, name, httpEquiv, charSet, itemProp, content, children) ==
  [type |-> type, key |-> key, name |-> name, httpEquiv |-> httpEquiv,
   charSet |-> charSet, itemProp |-> itemProp, content |-> content,
   className |-> Absent, children |-> children, src |-> <<>>]

UserKey(k) == <<"", k>>

Undefined == [defined |-> FALSE, value |-> <<>>]
Defined(list) == [defined |-> TRUE, value |-> list]

RECURSIVE Reverse(_)
Reverse(s) ==
  IF s = <<>> THEN <<>> ELSE Reverse(Tail(s)) \o <<Head(s)>>

RECURSIVE StampAt(_, _)
\* the children of one JSX tree, each given its identity
StampAt(path, children) ==
  [i \in 1..Len(children) |->
     [children[i] EXCEPT !.src = path \o <<i>>,
                         !.children = StampAt(path \o <<i>>, @)]]

----------------------------------------------------------------------------
(* defaultHead *)

\* defaultHead as it would be if the viewport meta were pushed in amp mode too
defaultHeadIgnoresAmp(className, inAmpMode) ==
  LET charSet ==
        [Elem("meta", UserKey("charSet"), Absent, Absent, "utf-8", Absent,
              Absent, <<>>)
           EXCEPT !.className = className, !.src = <<0, 1>>]
      viewport ==
        [Elem("meta", UserKey("viewport"), "viewport", Absent, Absent, Absent,
              "width=device-width,minimum-scale=1,initial-scale=1", <<>>)
           EXCEPT !.className = className, !.src = <<0, 2>>]
  IN  <<charSet, viewport>>

defaultHead(className, inAmpMode) ==
  LET charSet ==
        [Elem("meta", UserKey("charSet"), Absent, Absent, "utf-8", Absent,
              Absent, <<>>)
           EXCEPT !.className = className, !.src = <<0, 1>>]
      viewport ==
        [Elem("meta", UserKey("viewport"), "viewport", Absent, Absent, Absent,
              "width=device-width,minimum-scale=1,initial-scale=1", <<>>)
           EXCEPT !.className = className, !.src = <<0, 2>>]
  IN  IF ~inAmpMode THEN <<charSet, viewport>> ELSE <<charSet>>

----------------------------------------------------------------------------
(* React.Children.toArray, as head.tsx uses it: the children in order, an  *)
(* explicit key k becoming ".$" + k and a missing key "." + index.         *)

childrenToArray(children) ==
  [i \in 1..Len(children) |->
     IF children[i].type = Text THEN children[i]
     ELSE [children[i] EXCEPT
             !.key = IF @ = NoKey THEN <<".", ToString(i - 1)>>
                     ELSE <<".$", @[2]>>]]

----------------------------------------------------------------------------
(* onlyReactElement *)

RECURSIVE fragmentReduce(_, _)
\* the inner reduce over a Fragment's children (lines 40-54)
fragmentReduce(fragmentList, rest) ==
  IF rest = <<>> THEN fragmentList
  ELSE LET fragmentChild == Head(rest) IN
       IF fragmentChild.type = Text
         THEN fragmentReduce(fragmentList, Tail(rest))
         ELSE fragmentReduce(fragmentList \o <<fragmentChild>>, Tail(rest))

onlyReactElement(list, child) ==
  IF child.type = Text THEN list
  ELSE IF child.type = Fragment
    THEN list \o fragmentReduce(<<>>, childrenToArray(child.children))
    ELSE list \o <<child>>

RECURSIVE reduceOnlyReactElement(_, _)
\* .reduce(onlyReactElement, [])
reduceOnlyReactElement(list, rest) ==
  IF rest = <<>> THEN list
  ELSE reduceOnlyReactElement(onlyReactElement(list, Head(rest)), Tail(rest))

----------------------------------------------------------------------------
(* unique *)

METATYPES == <<"name", "httpEquiv", "charSet", "itemProp">>

\* the closure state of one unique() filter
uniqueInit ==
  [keys |-> {}, tags |-> {}, metaTypes |-> {},
   metaCategories |-> [m \in {"name", "httpEquiv", "itemProp"} |-> {}]]

hasReservedKey(h) == h.key # NoKey /\ h.key[1] = ".$"

RECURSIVE metaLoopForgetsCharSet(_, _, _)
\* the loop as it would be without metaTypes.add(metatype)
metaLoopForgetsCharSet(h, i, st) ==
  IF i > Len(METATYPES) THEN [pass |-> TRUE, st |-> st]
  ELSE LET metatype == METATYPES[i] IN
       IF h[metatype] = Absent THEN metaLoopForgetsCharSet(h, i + 1, st)
       ELSE IF metatype = "charSet"
         THEN IF metatype \in st.metaTypes
                THEN [pass |-> FALSE, st |-> st]
                ELSE metaLoopForgetsCharSet(h, i + 1, st)
         ELSE LET category == h[metatype]
                  categories == st.metaCategories[metatype]
              IN  IF category \in categories
                    THEN [pass |-> FALSE, st |-> st]
                    ELSE metaLoopForgetsCharSet(h, i + 1,
                           [st EXCEPT !.metaCategories[metatype] =
                                         @ \cup {category}])

RECURSIVE metaLoopForgetsCategory(_, _, _)
\* the loop as it would be without categories.add(category)
metaLoopForgetsCategory(h, i, st) ==
  IF i > Len(METATYPES) THEN [pass |-> TRUE, st |-> st]
  ELSE LET metatype == METATYPES[i] IN
       IF h[metatype] = Absent THEN metaLoopForgetsCategory(h, i + 1, st)
       ELSE IF metatype = "charSet"
         THEN IF metatype \in st.metaTypes
                THEN [pass |-> FALSE, st |-> st]
                ELSE metaLoopForgetsCategory(h, i + 1,
                       [st EXCEPT !.metaTypes = @ \cup {metatype}])
         ELSE LET category == h[metatype]
                  categories == st.metaCategories[metatype]
              IN  IF category \in categories
                    THEN [pass |-> FALSE, st |-> st]
                    ELSE metaLoopForgetsCategory(h, i + 1, st)

RECURSIVE metaLoopOneCategory(_, _, _)
\* the loop as it would be if it tracked the metatype, not the prop's value
metaLoopOneCategory(h, i, st) ==
  IF i > Len(METATYPES) THEN [pass |-> TRUE, st |-> st]
  ELSE LET metatype == METATYPES[i] IN
       IF h[metatype] = Absent THEN metaLoopOneCategory(h, i + 1, st)
       ELSE IF metatype = "charSet"
         THEN IF metatype \in st.metaTypes
                THEN [pass |-> FALSE, st |-> st]
                ELSE metaLoopOneCategory(h, i + 1,
                       [st EXCEPT !.metaTypes = @ \cup {metatype}])
         ELSE LET category == metatype
                  categories == st.metaCategories[metatype]
              IN  IF category \in categories
                    THEN [pass |-> FALSE, st |-> st]
                    ELSE metaLoopOneCategory(h, i + 1,
                           [st EXCEPT !.metaCategories[metatype] =
                                         @ \cup {category}])

RECURSIVE metaLoop(_, _, _)
\* the for loop over METATYPES from index i on: whether h passes, and the
\* filter state it leaves (what it added before a return false stays added)
metaLoop(h, i, st) ==
  IF i > Len(METATYPES) THEN [pass |-> TRUE, st |-> st]
  ELSE LET metatype == METATYPES[i] IN
       IF h[metatype] = Absent THEN metaLoop(h, i + 1, st)
       ELSE IF metatype = "charSet"
         THEN IF metatype \in st.metaTypes
                THEN [pass |-> FALSE, st |-> st]
                ELSE metaLoop(h, i + 1,
                              [st EXCEPT !.metaTypes = @ \cup {metatype}])
         ELSE LET category == h[metatype]
                  categories == st.metaCategories[metatype]
              IN  IF category \in categories
                    THEN [pass |-> FALSE, st |-> st]
                    ELSE metaLoop(h, i + 1,
                           [st EXCEPT !.metaCategories[metatype] =
                                         @ \cup {category}])

\* the filter function as it would be without keys.add(h.key)
uniqueStepForgetsKey(h, st) ==
  IF hasReservedKey(h)
    THEN IF h.key \in st.keys
           THEN [pass |-> FALSE, st |-> st]
           ELSE [pass |-> TRUE, st |-> st]
  ELSE IF h.type \in {"title", "base"}
    THEN IF h.type \in st.tags
           THEN [pass |-> FALSE, st |-> st]
           ELSE [pass |-> TRUE, st |-> [st EXCEPT !.tags = @ \cup {h.type}]]
  ELSE IF h.type = "meta" THEN metaLoop(h, 1, st)
  ELSE [pass |-> TRUE, st |-> st]

\* one call of the filter function unique() returns
uniqueStep(h, st) ==
  IF hasReservedKey(h)
    THEN IF h.key \in st.keys
           THEN [pass |-> FALSE, st |-> st]
           ELSE [pass |-> TRUE, st |-> [st EXCEPT !.keys = @ \cup {h.key}]]
  ELSE IF h.type \in {"title", "base"}
    THEN IF h.type \in st.tags
           THEN [pass |-> FALSE, st |-> st]
           ELSE [pass |-> TRUE, st |-> [st EXCEPT !.tags = @ \cup {h.type}]]
  ELSE IF h.type = "meta" THEN metaLoop(h, 1, st)
  ELSE [pass |-> TRUE, st |-> st]

RECURSIVE filterUnique(_, _)
\* .filter(unique()), the filter state threaded through the list
filterUnique(list, st) ==
  IF list = <<>> THEN <<>>
  ELSE LET r == uniqueStep(Head(list), st) IN
       (IF r.pass THEN <<Head(list)>> ELSE <<>>)
         \o filterUnique(Tail(list), r.st)

----------------------------------------------------------------------------
(* reduceHeadInstances *)

RECURSIVE collectChildren(_)
\* the first reduce: every ref's React.Children.toArray(ref.current)
collectChildren(refs) ==
  IF refs = <<>> THEN <<>>
  ELSE childrenToArray(Head(refs)) \o collectChildren(Tail(refs))

\* the .map callback of lines 127-137, i being the 0-based index
cloneWithKeyAndClass(c, i) ==
  LET withClass ==
        (IF c.className \notin {Absent, ""} THEN c.className \o " " ELSE "")
          \o "next-head"
      className ==
        IF c.type = "title" /\ c.className \in {Absent, ""}
          THEN Absent ELSE withClass
      key == IF c.key # NoKey THEN c.key
             ELSE <<"#", ToString(i)>>
  IN  [c EXCEPT !.key = key, !.className = className]

\* the list as it would be without the first .reverse()
mergeInstancesFirstWins(refs, inAmpMode) ==
  Reverse(
    filterUnique(
      reduceOnlyReactElement(<<>>, collectChildren(refs))
        \o defaultHead("", inAmpMode),
      uniqueInit))

\* the list as it would be with the defaults concatenated before the first
\* .reverse()
mergeInstancesDefaultsFirst(refs, inAmpMode) ==
  Reverse(
    filterUnique(
      Reverse(reduceOnlyReactElement(<<>>, collectChildren(refs))
                \o defaultHead("", inAmpMode)),
      uniqueInit))

\* the list as it would be without the second .reverse()
mergeInstancesNoRestore(refs, inAmpMode) ==
  filterUnique(
    Reverse(reduceOnlyReactElement(<<>>, collectChildren(refs)))
      \o defaultHead("", inAmpMode),
    uniqueInit)

\* the list up to and including the second .reverse()
mergeInstances(refs, inAmpMode) ==
  Reverse(
    filterUnique(
      Reverse(reduceOnlyReactElement(<<>>, collectChildren(refs)))
        \o defaultHead("", inAmpMode),
      uniqueInit))

reduceHeadInstances(refs, options) ==
  LET merged == mergeInstances(refs, options.inAmpMode) IN
  [i \in 1..Len(merged) |-> cloneWithKeyAndClass(merged[i], i - 1)]

----------------------------------------------------------------------------
(* The children contributors render *)

title == Elem("title", NoKey, Absent, Absent, Absent, Absent, "t", <<>>)
titleKeyed ==
  Elem("title", UserKey("k"), Absent, Absent, Absent, Absent, "tk", <<>>)
base == Elem("base", NoKey, Absent, Absent, Absent, Absent, Absent, <<>>)
metaDescription ==
  Elem("meta", NoKey, "description", Absent, Absent, Absent, "d", <<>>)
metaViewport ==
  Elem("meta", NoKey, "viewport", Absent, Absent, Absent, "user", <<>>)
metaCharSet ==
  Elem("meta", NoKey, Absent, Absent, "utf-8", Absent, Absent, <<>>)
metaDescriptionCharSet ==
  Elem("meta", NoKey, "description", Absent, "utf-8", Absent, "dc", <<>>)
metaKeyed ==
  Elem("meta", UserKey("k"), "description", Absent, "utf-8", Absent, "dk", <<>>)
script == Elem("script", NoKey, Absent, Absent, "utf-8", Absent, Absent, <<>>)
link == Elem("link", NoKey, Absent, Absent, Absent, Absent, "l", <<>>)
text == Elem(Text, NoKey, Absent, Absent, Absent, Absent, "text", <<>>)
fragment ==
  Elem(Fragment, NoKey, Absent, Absent, Absent, Absent, Absent,
       <<text, title,
         Elem(Fragment, NoKey, Absent, Absent, Absent, Absent, Absent,
              <<base>>)>>)

\* the children the reducer's specification draws from
Pool ==
  {title, titleKeyed, base, metaDescription, metaViewport, metaCharSet,
   metaDescriptionCharSet, metaKeyed, script, fragment, text}

\* the children an instance of the lifecycle specification is given
LifecycleChildren == {<<>>, <<title>>, <<link>>, <<link, title>>}

\* the sequences over pool of at most n members
SeqsUpTo(pool, n) == UNION {[1..k -> pool] : k \in 0..n}

----------------------------------------------------------------------------
(* The Set of refs *)

Members(refs) == {refs[i] : i \in 1..Len(refs)}

\* add as it would be if it appended without looking for the member
setAddAlways(refs, h) == Append(refs, h)

\* Set.prototype.add: insertion order, no duplicates
setAdd(refs, h) == IF h \in Members(refs) THEN refs ELSE Append(refs, h)

\* delete as it would be if it moved the last member into the freed place
setDeleteSwapsLast(refs, h) ==
  IF h \notin Members(refs) THEN refs
  ELSE LET n == Len(refs)
           at == CHOOSE i \in 1..n : refs[i] = h
       IN  SubSeq([refs EXCEPT ![at] = refs[n]], 1, n - 1)

\* Set.prototype.delete
setDelete(refs, h) == SelectSeq(refs, LAMBDA r : r # h)

\* [...headInstanceRefs] with every ref's current children
refContents(refs, cur) == [i \in 1..Len(refs) |-> cur[refs[i]]]

----------------------------------------------------------------------------
(* Head *)

Closure(inAmpMode, updateHead) ==
  [inAmpMode |-> inAmpMode, updateHead |-> updateHead]

\* the closure of an instance that has none alive
NoClosure == Closure(FALSE, FALSE)

\* emitUpdate() of the render whose closure is given, run when the Set of
\* refs is refs and the refs hold cur
emitUpdate(refs, cur, closure) ==
  LET state == Defined(reduceHeadInstances(refContents(refs, cur),
                                           [inAmpMode |-> closure.inAmpMode]))
  IN  /\ headState' = state
      /\ published' = IF closure.updateHead THEN state ELSE Undefined

\* Head as it would be if the server branch ran before the ref was written
RenderEmitsBeforeWrite(h, children, inAmpMode, updateHead) ==
  LET closure == Closure(inAmpMode, updateHead)
      cur == [current EXCEPT ![h] = StampAt(<<h>>, children)]
  IN  /\ current' = cur
      /\ IF isServer
           THEN /\ headInstanceRefs' = setAdd(headInstanceRefs, h)
                /\ emitUpdate(headInstanceRefs', current, closure)
                /\ last' = [op |-> "render", h |-> h, emitted |-> TRUE,
                            inAmpMode |-> inAmpMode]
                /\ UNCHANGED <<stage, firstClosure, lastClosure>>
           ELSE /\ stage[h] \in {"none", "mounted"}
                /\ stage' = [stage EXCEPT ![h] =
                               IF @ = "none" THEN "rendered" ELSE "updated"]
                /\ firstClosure' = [firstClosure EXCEPT ![h] =
                               IF stage[h] = "none" THEN closure ELSE @]
                /\ lastClosure' = [lastClosure EXCEPT ![h] = closure]
                /\ last' = [last EXCEPT !.op = "render", !.h = h]
                /\ published' = Undefined
                /\ UNCHANGED <<headInstanceRefs, headState>>
      /\ rewound' = Undefined
      /\ UNCHANGED <<isServer, headManager>>

\* the function body of Head for instance h (lines 144-189)
Render(h, children, inAmpMode, updateHead) ==
  LET closure == Closure(inAmpMode, updateHead)
      cur == [current EXCEPT ![h] = StampAt(<<h>>, children)]
  IN  /\ current' = cur
      /\ IF isServer
           THEN /\ headInstanceRefs' = setAdd(headInstanceRefs, h)
                /\ emitUpdate(headInstanceRefs', cur, closure)
                /\ last' = [op |-> "render", h |-> h, emitted |-> TRUE,
                            inAmpMode |-> inAmpMode]
                /\ UNCHANGED <<stage, firstClosure, lastClosure>>
           ELSE /\ stage[h] \in {"none", "mounted"}
                /\ stage' = [stage EXCEPT ![h] =
                               IF @ = "none" THEN "rendered" ELSE "updated"]
                /\ firstClosure' = [firstClosure EXCEPT ![h] =
                               IF stage[h] = "none" THEN closure ELSE @]
                /\ lastClosure' = [lastClosure EXCEPT ![h] = closure]
                /\ last' = [last EXCEPT !.op = "render", !.h = h]
                /\ published' = Undefined
                /\ UNCHANGED <<headInstanceRefs, headState>>
      /\ rewound' = Undefined
      /\ UNCHANGED <<isServer, headManager>>

\* the effects of h's first commit as they would be if the every-render
\* effect ran before the mount effect
MountEffectsEmitFirst(h) ==
  /\ ~isServer
  /\ stage[h] = "rendered"
  /\ headInstanceRefs' = setAdd(headInstanceRefs, h)
  /\ emitUpdate(headInstanceRefs, current, lastClosure[h])
  /\ stage' = [stage EXCEPT ![h] = "mounted"]
  /\ last' = [op |-> "mount", h |-> h, emitted |-> TRUE,
              inAmpMode |-> lastClosure[h].inAmpMode]
  /\ rewound' = Undefined
  /\ UNCHANGED <<isServer, headManager, current, firstClosure,
                 lastClosure>>

\* the effects of h's first commit: the mount effect (lines 173-175), then
\* the every-render effect (lines 184-186)
MountEffects(h) ==
  /\ ~isServer
  /\ stage[h] = "rendered"
  /\ headInstanceRefs' = setAdd(headInstanceRefs, h)
  /\ emitUpdate(headInstanceRefs', current, lastClosure[h])
  /\ stage' = [stage EXCEPT ![h] = "mounted"]
  /\ last' = [op |-> "mount", h |-> h, emitted |-> TRUE,
              inAmpMode |-> lastClosure[h].inAmpMode]
  /\ rewound' = Undefined
  /\ UNCHANGED <<isServer, headManager, current, firstClosure,
                 lastClosure>>

\* the every-render effect as it would be if an update registered the ref
\* anew, behind the others
UpdateEffectRegistersAnew(h) ==
  /\ ~isServer
  /\ stage[h] = "updated"
  /\ headInstanceRefs' =
       IF h \in Members(headInstanceRefs)
         THEN Append(SelectSeq(headInstanceRefs, LAMBDA r : r # h), h)
         ELSE headInstanceRefs
  /\ emitUpdate(headInstanceRefs', current, lastClosure[h])
  /\ stage' = [stage EXCEPT ![h] = "mounted"]
  /\ last' = [op |-> "update", h |-> h, emitted |-> TRUE,
              inAmpMode |-> lastClosure[h].inAmpMode]
  /\ rewound' = Undefined
  /\ UNCHANGED <<isServer, headManager, current, firstClosure,
                 lastClosure>>

\* the every-render effect as it would be if the reducer's first .reverse()
\* were applied to each ref's own array of children
UpdateEffectReversesRefs(h) ==
  /\ ~isServer
  /\ stage[h] = "updated"
  /\ emitUpdate(headInstanceRefs, current, lastClosure[h])
  /\ current' = [g \in Handles |->
                   IF g \in Members(headInstanceRefs)
                     THEN Reverse(current[g]) ELSE current[g]]
  /\ stage' = [stage EXCEPT ![h] = "mounted"]
  /\ last' = [op |-> "update", h |-> h, emitted |-> TRUE,
              inAmpMode |-> lastClosure[h].inAmpMode]
  /\ rewound' = Undefined
  /\ UNCHANGED <<isServer, headManager, headInstanceRefs, firstClosure,
                 lastClosure>>

\* the every-render effect after an update of h (lines 184-186)
UpdateEffect(h) ==
  /\ ~isServer
  /\ stage[h] = "updated"
  /\ emitUpdate(headInstanceRefs, current, lastClosure[h])
  /\ stage' = [stage EXCEPT ![h] = "mounted"]
  /\ last' = [op |-> "update", h |-> h, emitted |-> TRUE,
              inAmpMode |-> lastClosure[h].inAmpMode]
  /\ rewound' = Undefined
  /\ UNCHANGED <<isServer, headManager, headInstanceRefs, current,
                 firstClosure, lastClosure>>

\* the cleanup of the mount effect (lines 176-179): the closure it runs in
\* is the one of the render that mounted h, the effect having no dependency
Unmount(h) ==
  /\ ~isServer
  /\ stage[h] = "mounted"
  /\ headInstanceRefs' = setDelete(headInstanceRefs, h)
  /\ emitUpdate(headInstanceRefs', current, firstClosure[h])
  /\ stage' = [stage EXCEPT ![h] = "none"]
  /\ firstClosure' = [firstClosure EXCEPT ![h] = NoClosure]
  /\ lastClosure' = [lastClosure EXCEPT ![h] = NoClosure]
  /\ current' = [current EXCEPT ![h] = <<>>]
  /\ last' = [op |-> "unmount", h |-> h, emitted |-> TRUE,
              inAmpMode |-> firstClosure[h].inAmpMode]
  /\ rewound' = Undefined
  /\ UNCHANGED <<isServer, headManager>>

\* rewind as it would be if it read headState after resetting it
RewindReadsLate ==
  /\ headState' = Undefined
  /\ rewound' = headState'
  /\ headInstanceRefs' = <<>>
  /\ last' = [op |-> "rewind", h |-> 0, emitted |-> FALSE,
              inAmpMode |-> FALSE]
  /\ published' = Undefined
  /\ UNCHANGED <<isServer, headManager, current, stage, firstClosure,
                 lastClosure>>

\* Head.rewind (lines 191-196)
Rewind ==
  /\ rewound' = headState
  /\ headState' = Undefined
  /\ headInstanceRefs' = <<>>
  /\ last' = [op |-> "rewind", h |-> 0, emitted |-> FALSE,
              inAmpMode |-> FALSE]
  /\ published' = Undefined
  /\ UNCHANGED <<isServer, headManager, current, stage, firstClosure,
                 lastClosure>>

----------------------------------------------------------------------------
(* The lifecycle specification: any number of instances rendered on the   *)
(* server or mounted, updated and unmounted on the client, and rewind     *)
(* called at any time.                                                    *)

Init ==
  /\ isServer \in BOOLEAN
  /\ headManager \in BOOLEAN
  /\ headInstanceRefs = <<>>
  /\ headState = Undefined
  /\ current = [h \in Handles |-> <<>>]
  /\ stage = [h \in Handles |-> "none"]
  /\ firstClosure = [h \in Handles |-> NoClosure]
  /\ lastClosure = [h \in Handles |-> NoClosure]
  /\ published = Undefined
  /\ rewound = Undefined
  /\ last = [op |-> "init", h |-> 0, emitted |-> FALSE, inAmpMode |-> FALSE]

DoRender ==
  \E h \in LifecycleHandles, children \in LifecycleChildren,
     inAmpMode \in BOOLEAN :
    Render(h, children, inAmpMode, headManager)

DoMountEffects == \E h \in Handles : MountEffects(h)

DoUpdateEffect == \E h \in Handles : UpdateEffect(h)

DoUnmount == \E h \in Handles : Unmount(h)

Next == DoRender \/ DoMountEffects \/ DoUpdateEffect \/ DoUnmount \/ Rewind

Spec == Init /\ [][Next]_vars

----------------------------------------------------------------------------
(* The reducer's specification: instance 1 is mounted and instance 2,      *)
(* mounted after it without children, has just re-rendered; they hold any  *)
(* children of Pool, MaxElems together at most.  The every-render effect   *)
(* of instance 2 then runs emitUpdate.                                     *)

InitReduce ==
  \E flat \in SeqsUpTo(Pool, MaxElems), inAmpMode \in BOOLEAN :
    \E k \in 0..Len(flat) :
      LET first == StampAt(<<1>>, SubSeq(flat, 1, k))
          second == StampAt(<<2>>, SubSeq(flat, k + 1, Len(flat)))
      IN  /\ isServer = FALSE
          /\ headManager = TRUE
          /\ headInstanceRefs = <<1, 2>>
          /\ current =
               [h \in Handles |->
                  IF h = 1 THEN first ELSE IF h = 2 THEN second ELSE <<>>]
          /\ stage = (1 :> "mounted" @@ 2 :> "updated" @@ 3 :> "none")
          /\ firstClosure =
               [h \in Handles |->
                  IF h \in {1, 2} THEN Closure(FALSE, TRUE) ELSE NoClosure]
          /\ lastClosure =
               [h \in Handles |->
                  IF h = 1 THEN Closure(FALSE, TRUE)
                  ELSE IF h = 2 THEN Closure(inAmpMode, TRUE) ELSE NoClosure]
          /\ headState = Defined(reduceHeadInstances(<<first, <<>>>>,
                                                     [inAmpMode |-> FALSE]))
          /\ published = Undefined
          /\ rewound = Undefined
          /\ last = [op |-> "render", h |-> 2, emitted |-> TRUE,
                      inAmpMode |-> FALSE]

SpecReduce == InitReduce /\ [][DoUpdateEffect]_vars

----------------------------------------------------------------------------
(* The unmount specification: three instances mounted in any order, each   *)
(* with any children of LifecycleChildren, the last of them having just    *)
(* mounted; they then unmount in any order.                                *)

InitUnmount ==
  \E order \in {o \in [1..3 -> Handles] :
                   \A i, j \in 1..3 : o[i] = o[j] => i = j},
     children \in [Handles -> LifecycleChildren],
     inAmpMode \in [Handles -> BOOLEAN] :
    /\ isServer = FALSE
    /\ headManager = TRUE
    /\ headInstanceRefs = order
    /\ current = [h \in Handles |-> StampAt(<<h>>, children[h])]
    /\ stage = [h \in Handles |-> "mounted"]
    /\ firstClosure = [h \in Handles |-> Closure(inAmpMode[h], TRUE)]
    /\ lastClosure = firstClosure
    /\ headState =
         Defined(reduceHeadInstances(
                   [i \in 1..3 |-> StampAt(<<order[i]>>, children[order[i]])],
                   [inAmpMode |-> inAmpMode[order[3]]]))
    /\ published = headState
    /\ rewound = Undefined
    /\ last = [op |-> "mount", h |-> order[3], emitted |-> TRUE,
               inAmpMode |-> inAmpMode[order[3]]]

SpecUnmount == InitUnmount /\ [][DoUnmount]_vars

----------------------------------------------------------------------------
(* What the properties speak of *)

\* the last step registered its instance: a render on the server, or the
\* mount effect
Registered == (isServer /\ last.op = "render") \/ last.op = "mount"

\* the last step ran emitUpdate
Recomputed ==
  \/ last.op \in {"mount", "update", "unmount"}
  \/ isServer /\ last.op = "render"

\* the merged output
Out == headState.value

\* the contributed elements in registration order, Fragments flattened
In ==
  reduceOnlyReactElement(<<>>,
    collectChildren(refContents(headInstanceRefs, current)))

\* e is in the list output (the output keeps every element's key and src)
Survives(output, e) == \E j \in DOMAIN output : output[j].src = e.src

Reserved(e) == e.key[1] = ".$"

IdentityAttrs(e) ==
  {m \in {"name", "httpEquiv", "charSet", "itemProp"} : e[m] # Absent}

IsDefault(e) == e.src[1] = 0

RECURSIVE PathBefore(_, _)
\* the JSX object at path p comes before the one at path q in one instance's
\* children read depth first
PathBefore(p, q) ==
  IF p = <<>> \/ q = <<>> THEN FALSE
  ELSE IF Head(p) # Head(q) THEN Head(p) < Head(q)
  ELSE PathBefore(Tail(p), Tail(q))

\* contributed element e comes before contributed element f: its instance
\* registered earlier, or it is the same instance's and e is written first
ContributedBefore(e, f) ==
  LET at(h) == CHOOSE i \in DOMAIN headInstanceRefs : headInstanceRefs[i] = h
  IN  IF e.src[1] # f.src[1] THEN at(e.src[1]) < at(f.src[1])
      ELSE PathBefore(Tail(e.src), Tail(f.src))

RECURSIVE Without(_, _)
\* children as the contributor would have written them without the JSX
\* object of identity src
Without(children, src) ==
  LET kept == SelectSeq(children, LAMBDA c : c.src # src)
  IN  [i \in 1..Len(kept) |->
         [kept[i] EXCEPT !.children = Without(@, src)]]

\* the identities of the elements of a list, in order
Srcs(list) == [j \in 1..Len(list) |-> list[j].src]

\* the last of a nonempty set of indices
Latest(S) == CHOOSE i \in S : \A j \in S : j <= i

\* the indices of the elements of input of type tag without reserved key
UnkeyedOfType(input, tag) ==
  {i \in DOMAIN input : input[i].type = tag /\ ~Reserved(input[i])}

\* the indices of the metas of input without reserved key that carry
\* identity attribute m with value v
UnkeyedMetas(input, m, v) ==
  {i \in UnkeyedOfType(input, "meta") : input[i][m] = v}

\* e carries what the default charSet meta (m = "charSet") or the default
\* viewport meta (m = "name") is identified by
Carries(e, m) ==
  IF m = "charSet" THEN e.charSet # Absent ELSE e.name = "viewport"

\* the default element carrying identity attribute m is in output
DefaultSurvives(output, m) ==
  \E j \in DOMAIN output : IsDefault(output[j]) /\ output[j][m] # Absent

----------------------------------------------------------------------------
(* C1 *)

\* C1 (as stated): every merged output holds at most one title and at most
\* one base element, and the one it holds is the latest contributed one.
C1_AtMostOneTitleAndBase ==
  LET input == In
      output == Out
  IN
    Recomputed =>
      \A tag \in {"title", "base"} :
        LET outs == {j \in DOMAIN output : output[j].type = tag}
            ins == {i \in DOMAIN input : input[i].type = tag}
        IN  /\ Cardinality(outs) <= 1
            /\ \A j \in outs : output[j].src = input[Latest(ins)].src

\* C1 (amended): among the elements without a reserved key, every merged
\* output holds at most one title and at most one base, namely the latest
\* contributed one whenever one is contributed; titles and bases carrying a
\* reserved key are not counted.
C1_UnkeyedTitleAndBase ==
  LET input == In
      output == Out
  IN
    Recomputed =>
      \A tag \in {"title", "base"} :
        LET outs == {j \in DOMAIN output :
                       output[j].type = tag /\ ~Reserved(output[j])}
            ins == UnkeyedOfType(input, tag)
        IN  IF ins = {} THEN outs = {}
            ELSE {output[j].src : j \in outs} = {input[Latest(ins)].src}

\* two instances each contribute a title without key: the later one's is kept
C1_Witness ==
  LET input == In
      output == Out
  IN
    /\ Recomputed
    /\ \E i, j \in UnkeyedOfType(input, "title") :
         /\ input[i].src[1] = 1 /\ input[j].src[1] = 2
         /\ ~Survives(output, input[i]) /\ Survives(output, input[j])

----------------------------------------------------------------------------
(* C2 *)

\* C2 (as stated): at most one element carrying charSet is in the output.
C2_AtMostOneCharSet ==
  LET input == In
      output == Out
  IN
    Recomputed =>
      Cardinality({j \in DOMAIN output : output[j].charSet # Absent}) <= 1

\* C2 (amended): at most one meta element without a reserved key that
\* carries charSet is in the output, the default one counted; elements of
\* another type and metas with a reserved key are not counted.
C2_AtMostOneUnkeyedCharSetMeta ==
  LET input == In
      output == Out
  IN
    Recomputed =>
      Cardinality({j \in DOMAIN output : /\ output[j].type = "meta"
                                          /\ ~Reserved(output[j])
                                          /\ output[j].charSet # Absent}) <= 1

\* both instances contribute a charSet meta and one is dropped
C2_Witness ==
  LET input == In
      output == Out
  IN
    /\ Recomputed
    /\ \E i, j \in UnkeyedOfType(input, "meta") :
         /\ input[i].charSet # Absent /\ input[j].charSet # Absent
         /\ input[i].src[1] = 1 /\ input[j].src[1] = 2
         /\ ~Survives(output, input[i]) /\ Survives(output, input[j])
    /\ ~DefaultSurvives(output, "charSet")

----------------------------------------------------------------------------
(* C3 *)

\* C3 (as stated): of the contributed metas sharing a name value, exactly
\* the latest is in the output.
C3_SameNameLatestOnly ==
  LET input == In
      output == Out
  IN
    Recomputed =>
      \A i, j \in DOMAIN input :
        (/\ i < j
         /\ input[i].type = "meta" /\ input[j].type = "meta"
         /\ input[i].name # Absent /\ input[i].name = input[j].name)
        => LET same == {k \in DOMAIN input :
                          /\ input[k].type = "meta"
                          /\ input[k].name = input[i].name}
           IN  \A k \in same : Survives(output, input[k]) <=> k = Latest(same)

\* C3 (amended): of the contributed metas without reserved key sharing a
\* name value, none but the latest is in the output, nor is a default meta
\* of that name; the latest is in the output whenever name is its only
\* identity attribute.
C3_UnkeyedSameNameLatestOnly ==
  LET input == In
      output == Out
  IN
    Recomputed =>
      \A i \in UnkeyedOfType(input, "meta") :
        input[i].name # Absent =>
          LET same == UnkeyedMetas(input, "name", input[i].name)
              latest == Latest(same)
          IN  /\ \A j \in DOMAIN output :
                   (/\ output[j].type = "meta" /\ ~Reserved(output[j])
                    /\ output[j].name = input[i].name)
                   => output[j].src = input[latest].src
              /\ IdentityAttrs(input[latest]) = {"name"}
                   => Survives(output, input[latest])

\* A's description meta is dropped and B's, registered later, is kept
C3_Witness ==
  LET input == In
      output == Out
  IN
    /\ Recomputed
    /\ \E i, j \in UnkeyedMetas(input, "name", "description") :
         /\ input[i].src[1] = 1 /\ input[j].src[1] = 2
         /\ IdentityAttrs(input[i]) = {"name"}
         /\ IdentityAttrs(input[j]) = {"name"}
         /\ ~Survives(output, input[i]) /\ Survives(output, input[j])
    /\ Cardinality({j \in DOMAIN output : output[j].name = "description"}) = 1

----------------------------------------------------------------------------
(* C4 *)

\* C4 (as stated): two contributed metas with distinct name values, neither
\* name being carried by any other contributed meta, are both in the output.
C4_DistinctNamesBothSurvive ==
  LET input == In
      output == Out
  IN
    Recomputed =>
      \A i, j \in DOMAIN input :
        (/\ input[i].type = "meta" /\ input[j].type = "meta"
         /\ input[i].name # Absent /\ input[j].name # Absent
         /\ input[i].name # input[j].name
         /\ \A k \in DOMAIN input \ {i, j} :
              input[k].type = "meta"
              => input[k].name \notin {input[i].name, input[j].name})
        => Survives(output, input[i]) /\ Survives(output, input[j])

\* C4 (amended): a contributed meta without reserved key whose only
\* identity attribute is name is in the output unless a later-registered
\* meta without reserved key has the same name value; so two such metas with
\* distinct names are both in the output when neither name is repeated later.
C4_NameOnlyMetaDroppedOnlyBySameName ==
  LET input == In
      output == Out
  IN
    Recomputed =>
      \A i \in UnkeyedOfType(input, "meta") :
        IdentityAttrs(input[i]) = {"name"} =>
          (Survives(output, input[i]) <=>
             ~\E j \in UnkeyedMetas(input, "name", input[i].name) : j > i)

\* a description meta and a viewport meta are contributed and both are kept
C4_Witness ==
  LET input == In
      output == Out
  IN
    /\ Recomputed
    /\ \E i \in UnkeyedMetas(input, "name", "description"),
          j \in UnkeyedMetas(input, "name", "viewport") :
         /\ IdentityAttrs(input[i]) = {"name"}
         /\ IdentityAttrs(input[j]) = {"name"}
         /\ Survives(output, input[i]) /\ Survives(output, input[j])

----------------------------------------------------------------------------
(* C5 *)

\* C5: of the contributed elements bearing the same reserved key exactly the
\* latest is in the output, whatever their types and attributes are and
\* whatever else the output holds.
C5_ReservedKeyLatestOnly ==
  LET input == In
      output == Out
  IN
    Recomputed =>
      \A i \in DOMAIN input :
        Reserved(input[i]) =>
          (Survives(output, input[i]) <=>
             ~\E j \in DOMAIN input : j > i /\ input[j].key = input[i].key)

\* a keyed meta is dropped for a later title with the same key, and a title
\* without key is in the output beside the keyed one
C5_Witness ==
  LET input == In
      output == Out
  IN
    /\ Recomputed
    /\ \E i, j \in DOMAIN input :
         /\ i < j /\ Reserved(input[i]) /\ input[j].key = input[i].key
         /\ input[i].type = "meta" /\ input[j].type = "title"
         /\ ~Survives(output, input[i]) /\ Survives(output, input[j])
    /\ \E i \in UnkeyedOfType(input, "title") : Survives(output, input[i])

----------------------------------------------------------------------------
(* C6 *)

\* C6: a rewind() returns the cached head state: right after an emitUpdate
\* that is the list this emitUpdate computed from the refs (and handed to
\* updateHead, when there is one); when emitUpdate has not run since the
\* start or since the last rewind() it is undefined; and after any rewind()
\* the Set of refs is empty and the cached head state undefined.
C6_Rewind ==
  [][last'.op = "rewind" =>
       /\ rewound' = headState
       /\ Recomputed =>
            /\ rewound' =
                 Defined(reduceHeadInstances(
                           refContents(headInstanceRefs, current),
                           [inAmpMode |-> last.inAmpMode]))
            /\ headManager => rewound' = published
       /\ ~last.emitted => rewound' = Undefined
       /\ headState' = Undefined
       /\ headInstanceRefs' = <<>>]_vars

\* a rewind() has returned a list holding a contributed element
C6_Witness ==
  /\ last.op = "rewind"
  /\ rewound.defined
  /\ \E j \in DOMAIN rewound.value : ~IsDefault(rewound.value[j])
  /\ headState = Undefined /\ headInstanceRefs = <<>>

----------------------------------------------------------------------------
(* C7 *)

\* C7: the output of the emitUpdate that unmounting h runs holds no element
\* of h, and the elements that were in the cached output before and are in
\* it after are in the same order.
C7_Unmount ==
  [][\A h \in Handles :
       (last'.op = "unmount" /\ stage[h] = "mounted" /\ stage'[h] = "none")
       => LET before == headState.value
              after == headState'.value
          IN  /\ headState'.defined
              /\ \A j \in DOMAIN after : after[j].src[1] # h
              /\ \A i1, i2 \in DOMAIN before, j1, j2 \in DOMAIN after :
                   (/\ before[i1] = after[j1] /\ before[i2] = after[j2]
                    /\ i1 < i2)
                   => j1 < j2]_vars

\* an instance was unmounted and the elements of the two others, which
\* registered 3 first and 1 second, are in the output
C7_Witness ==
  LET input == In
      output == Out
  IN
    /\ last.op = "unmount"
    /\ headInstanceRefs = <<3, 1>>
    /\ \A h \in {1, 3} :
         /\ Len(current[h]) = 2
         /\ Survives(output, current[h][1])

----------------------------------------------------------------------------
(* C8 *)

\* C8: the output of an emitUpdate in normal mode with no ref in the Set is
\* the default charSet meta followed by the default viewport meta.
C8_NoContributorsDefaults ==
  LET output == Out
  IN
    (Recomputed /\ headInstanceRefs = <<>> /\ ~last.inAmpMode) =>
      /\ Len(output) = 2
      /\ output[1].type = "meta" /\ output[1].charSet = "utf-8"
      /\ output[2].type = "meta" /\ output[2].name = "viewport"

----------------------------------------------------------------------------
(* C9 *)

\* C9: after a recompute in amp mode the only default element in the output
\* is the charSet meta, and every viewport meta in it was contributed.
C9_AmpDefaultsOnlyCharSet ==
  LET input == In
      output == Out
  IN
    (Recomputed /\ last.inAmpMode) =>
      \A j \in DOMAIN output :
        /\ IsDefault(output[j])
             => output[j].charSet # Absent /\ output[j].name = Absent
        /\ output[j].name = "viewport" =>
             \E i \in DOMAIN input :
               input[i].src = output[j].src /\ input[i].name = "viewport"

\* amp mode, with a contributed viewport meta in the output
C9_Witness ==
  LET input == In
      output == Out
  IN
    /\ Recomputed /\ last.inAmpMode
    /\ \E j \in DOMAIN output : output[j].name = "viewport"
    /\ DefaultSurvives(output, "charSet")

----------------------------------------------------------------------------
(* C10 *)

\* C10 (as stated): whenever a contributed meta carries charSet
\* (name=viewport), a contributed one survives and the default charSet
\* (viewport) meta is not in the output.
C10_DefaultsLowestPrecedence ==
  LET input == In
      output == Out
  IN
    Recomputed =>
      \A m \in {"charSet", "name"} :
        LET metas == {i \in DOMAIN input :
                        input[i].type = "meta" /\ Carries(input[i], m)}
        IN  metas # {} =>
              /\ ~\E j \in DOMAIN output :
                    IsDefault(output[j]) /\ Carries(output[j], m)
              /\ \E i \in metas : Survives(output, input[i])

\* C10 (amended): whenever a contributed meta without reserved key carries
\* charSet (name=viewport) as its only identity attribute, the default
\* charSet (viewport) meta is not in the output; and the latest such
\* contributed meta is in the output when no contributed meta without
\* reserved key combines that attribute with another identity attribute.
C10_DefaultsYieldToUnkeyedMetas ==
  LET input == In
      output == Out
  IN
    Recomputed =>
      \A m \in {"charSet", "name"} :
        LET any == {i \in UnkeyedOfType(input, "meta") : Carries(input[i], m)}
            only == {i \in any : IdentityAttrs(input[i]) = {m}}
        IN  only # {} =>
              /\ ~\E j \in DOMAIN output :
                    IsDefault(output[j]) /\ Carries(output[j], m)
              /\ any = only => Survives(output, input[Latest(only)])

\* a contributed charSet meta and a contributed viewport meta are in the
\* output of a recompute in normal mode, and no default element is
C10_Witness ==
  LET input == In
      output == Out
  IN
    /\ Recomputed /\ ~last.inAmpMode
    /\ \A m \in {"charSet", "name"} :
         \E i \in UnkeyedOfType(input, "meta") :
           /\ Carries(input[i], m) /\ IdentityAttrs(input[i]) = {m}
           /\ Survives(output, input[i])
    /\ \A j \in DOMAIN output : ~IsDefault(output[j])

----------------------------------------------------------------------------
(* C11 *)

\* C11: adding a ref that is in the Set and deleting a ref that is not in
\* it leave the Set as it is, members and order; adding a new ref appends
\* it and deleting a member removes it alone; so the Set never holds a ref
\* twice.
C11_RegistryIdempotent ==
  [][LET h == last'.h
         refs == headInstanceRefs
     IN  /\ Registered' =>
               headInstanceRefs' =
                 IF h \in Members(refs) THEN refs ELSE Append(refs, h)
         /\ last'.op = "unmount" =>
               /\ h \notin Members(refs) => headInstanceRefs' = refs
               /\ headInstanceRefs' = SelectSeq(refs, LAMBDA r : r # h)
         /\ \A i, j \in DOMAIN headInstanceRefs' :
               headInstanceRefs'[i] = headInstanceRefs'[j] => i = j]_vars

\* on the server instance 1 has rendered again after instance 2 registered,
\* and is still before it, once, in the Set
C11_Witness ==
  /\ isServer
  /\ last.op = "render" /\ last.h = 1
  /\ headInstanceRefs = <<1, 2>>

----------------------------------------------------------------------------
(* C12 *)

\* C12: every step that runs emitUpdate stores the reduction of what the
\* refs then in the Set hold at that moment, the children written by each
\* instance's latest render (the step's own render included), in the order
\* of the Set, and hands that same list to updateHead when there is one.
C12_EmitUpdateReadsLatest ==
  [][Recomputed' =>
       LET state == Defined(reduceHeadInstances(
                              refContents(headInstanceRefs', current'),
                              [inAmpMode |-> last'.inAmpMode]))
       IN  /\ headState' = state
           /\ published' = IF headManager THEN state ELSE Undefined]_vars

\* instance 1 rendered again, changing its children to a link, and its
\* every-render effect published an output holding that link and the title
\* of instance 2
C12_Witness ==
  /\ last.op = "update" /\ last.h = 1
  /\ headInstanceRefs = <<1, 2>>
  /\ published.defined
  /\ Len(current[1]) = 1
  /\ \E i, j \in DOMAIN published.value :
       /\ published.value[i].type = "link"
       /\ published.value[i].src = current[1][1].src
       /\ published.value[j].type = "title"
       /\ published.value[j].src[1] = 2

----------------------------------------------------------------------------
(* C13 *)

\* C13: after every step that ends an instance's render on the server,
\* mount, update or unmount, the cached head state is the reduction of the
\* Set and the refs as the step left them: the instance is in the Set after
\* a server render and after a mount, and not in it after an unmount.
C13_StepEndsWithRecompute ==
  Recomputed
  => /\ last.emitted
     /\ headState =
          Defined(reduceHeadInstances(refContents(headInstanceRefs, current),
                                      [inAmpMode |-> last.inAmpMode]))
     /\ Registered => last.h \in Members(headInstanceRefs)
     /\ last.op = "unmount" => last.h \notin Members(headInstanceRefs)

\* instance 2 has mounted after instance 1 and its title is in the output
C13_Witness ==
  /\ last.op = "mount" /\ last.h = 2
  /\ headInstanceRefs = <<1, 2>>
  /\ \E j \in DOMAIN headState.value :
       headState.value[j].type = "title" /\ headState.value[j].src[1] = 2

----------------------------------------------------------------------------
(* C14 *)

\* C14: an update of an instance leaves the order of the Set as it was, and
\* in the output it produces, for any two refs of the Set, the elements of
\* the one registered first precede the elements of the other, and a title
\* of the first is not in the output when the other holds a title, whichever
\* of the two has just updated.
C14_RegistrationOrderRules ==
  [][last'.op = "update" =>
       LET refs == headInstanceRefs
           output == headState'.value
           HasTitle(h) == \E k \in DOMAIN current'[h] :
                            current'[h][k].type = "title"
       IN  /\ headInstanceRefs' = refs
           /\ \A p, q \in DOMAIN refs :
                p < q =>
                  /\ \A i, j \in DOMAIN output :
                       (/\ output[i].src[1] = refs[p]
                        /\ output[j].src[1] = refs[q]) => i < j
                  /\ (HasTitle(refs[p]) /\ HasTitle(refs[q])) =>
                       \A i \in DOMAIN output :
                         output[i].type = "title" => output[i].src[1] # refs[p]
      ]_vars

\* instance 1, registered before instance 2, has just updated to a link and
\* a title: its link precedes the title of instance 2 and its own title is
\* dropped
C14_Witness ==
  /\ last.op = "update" /\ last.h = 1
  /\ headInstanceRefs = <<1, 2>>
  /\ Len(current[1]) = 2
  /\ \E i, j \in DOMAIN headState.value :
       /\ i < j
       /\ headState.value[i].src = current[1][1].src
       /\ headState.value[j].type = "title"
       /\ headState.value[j].src[1] = 2
  /\ \A i \in DOMAIN headState.value :
       headState.value[i].src # current[1][2].src

----------------------------------------------------------------------------
(* C15 *)

\* C15: no output holds a Fragment element or a text node, however deep the
\* Fragments of the contributed children are nested.
C15_NoFragmentInOutput ==
  LET output == Out
  IN
    Recomputed =>
      \A j \in DOMAIN output : output[j].type \notin {Fragment, Text}

----------------------------------------------------------------------------
(* C16 *)

\* C16: in every output the default elements that survive come before all
\* contributed elements, and the contributed elements that survive are in
\* the order in which they were contributed: by registration of their
\* instance, then by position in its children.
C16_DefaultsThenContributedInOrder ==
  LET output == Out
  IN
    Recomputed =>
      \A i, j \in DOMAIN output :
        i < j =>
          /\ IsDefault(output[j]) => IsDefault(output[i])
          /\ (~IsDefault(output[i]) /\ ~IsDefault(output[j]))
               => ContributedBefore(output[i], output[j])

\* a default element, two elements of instance 1 and one of instance 2
\* survive while a contributed element is dropped
C16_Witness ==
  LET input == In
      output == Out
  IN
    /\ Recomputed
    /\ \E j \in DOMAIN output : IsDefault(output[j])
    /\ \E i, j, k \in DOMAIN output :
         /\ i < j /\ j < k
         /\ output[i].src[1] = 1 /\ output[j].src[1] = 1
         /\ output[k].src[1] = 2
    /\ \E i \in DOMAIN input : ~Survives(output, input[i])

----------------------------------------------------------------------------
(* C17 *)

\* C17: a step that runs emitUpdate changes nothing of the Set and of the
\* refs but what the step does itself before emitUpdate: the every-render
\* effect leaves the Set and every ref's children, and their order, as they
\* were; a mount, a server render or an unmount changes the place of its own
\* ref in the Set and leaves the other refs, their order and every other
\* ref's children as they were.
C17_EmitUpdateFrame ==
  [][Recomputed' =>
       LET h == last'.h
           Others(refs) == SelectSeq(refs, LAMBDA r : r # h)
       IN  /\ Others(headInstanceRefs') = Others(headInstanceRefs)
           /\ \A g \in Handles \ {h} : current'[g] = current[g]
           /\ last'.op \in {"mount", "update"} => current' = current
           /\ last'.op = "update" => headInstanceRefs' = headInstanceRefs
      ]_vars

\* the every-render effect of instance 2 has run while instance 1,
\* registered before it, holds a link and a title, both in the output
C17_Witness ==
  /\ last.op = "update" /\ last.h = 2
  /\ headInstanceRefs = <<1, 2>>
  /\ Len(current[1]) = 2 /\ current[1][1].type = "link"
  /\ current[2] = <<>>
  /\ \E i, j \in DOMAIN headState.value :
       /\ i < j
       /\ headState.value[i].src = current[1][1].src
       /\ headState.value[j].src = current[1][2].src

----------------------------------------------------------------------------
(* C18 *)

\* C18: an element the filter rejects has no influence on the others: had
\* the contributor not written it, the output would hold the same elements
\* in the same order.
C18_RejectedHasNoInfluence ==
  LET input == In
      output == Out
  IN
    Recomputed =>
      \A i \in DOMAIN input :
        ~Survives(output, input[i]) =>
          LET without == [h \in Handles |->
                            Without(current[h], input[i].src)]
          IN  Srcs(reduceHeadInstances(
                     refContents(headInstanceRefs, without),
                     [inAmpMode |-> last.inAmpMode]))
                = Srcs(output)

----------------------------------------------------------------------------
(* C19 *)

\* C19: the emitUpdate that the unmount of an instance runs uses the
\* inAmpMode and the updateHead of that instance's latest render, as the
\* every-render effect does.
C19_UnmountUsesLatestRender ==
  [][last'.op = "unmount" =>
       LET closure == lastClosure[last'.h]
           state == Defined(reduceHeadInstances(
                              refContents(headInstanceRefs', current'),
                              [inAmpMode |-> closure.inAmpMode]))
       IN  /\ headState' = state
           /\ published' = IF closure.updateHead THEN state ELSE Undefined
      ]_vars

----------------------------------------------------------------------------
(* C20 *)

\* C20: when the every-render effect of a mounted instance has run after
\* an update, the instance's ref is in the Set and its children took part
\* in the reduction: every link it holds, which nothing deduplicates, is in
\* the output.
C20_UpdatedInstanceTakesPart ==
  LET output == Out
  IN
    last.op = "update" =>
      /\ last.h \in Members(headInstanceRefs)
      /\ \A k \in DOMAIN current[last.h] :
           current[last.h][k].type = "link"
             => Survives(output, current[last.h][k])

====
